---- MODULE Spec2Model ----
(***************************************************************************)
(* Release manager and validator of the aircraft registry                  *)
(* (src/release.py, src/validate.py).                                      *)
(*                                                                         *)
(* The persisted state is the filesystem: the staging snapshot, the        *)
(* production snapshot, the backups directory, the VERSION file and        *)
(* schema.json.  A release attempt is a sequence of steps of               *)
(* release_to_production; pc is its position.  Execution is strictly       *)
(* sequential: a rollback or a validation run starts only when no release  *)
(* is in progress.                                                         *)
(*                                                                         *)
(* A JSON file is modelled as [exists, data, fmt]: data is the parsed      *)
(* document (a function from the top-level keys present to their values),  *)
(* fmt is its textual layout ("indent2" is what json.dump(indent=2) of     *)
(* this program writes, "raw" is any other layout).  A byte-for-byte copy  *)
(* keeps both; a json.load/json.dump round trip keeps data and sets fmt.   *)
(***************************************************************************)
EXTENDS Integers, Sequences, FiniteSets, TLC

VARIABLES
    staging,      \* aircraft-staging.json
    production,   \* aircraft.json
    backupsDir,   \* whether the directory backups/ exists
    backups,      \* capture timestamp -> content of backups/aircraft_backup_<ts>.json
    versionFile,  \* VERSION: [exists, text]
    schema,       \* schema.json: "absent", or its verdict on the data ("accepts"/"rejects")
    clock,        \* wall clock, second granularity
    pc,           \* position of the release attempt in progress ("idle" when none)
    force,        \* release_to_production's force argument
    choice,       \* version option taken in this attempt ("none" before / without one)
    bk,           \* backup_production's return value: [made, ts]
    vres,         \* outcome of the last validate.py run: [ran, file, ret]
    pre,          \* persisted state when the current/last operation started
    result,       \* outcome of the current/last operation
    bump,         \* last call of bump_version: its arguments and outcome
    review,       \* last run of review_changes.py: the two registries and the report
    ovr,          \* AircraftSyncer: the overrides and the aircraft list they are applied to
    fetch,        \* last fetched payload: its leading bytes and the decoder chosen
    imp           \* outcome of the last import run (sync_aircraft.py)

releaseVars == <<staging, production, backupsDir, backups, versionFile, schema,
                 clock, pc, force, choice, bk, vres, pre, result>>

toolVars == <<bump, review, ovr, fetch, imp>>

vars == <<releaseVars, toolVars>>

\* The values of bump, review, ovr, fetch and imp before anything has run.
NoBump == [ran |-> FALSE, current |-> <<>>, kind |-> "none",
           raised |-> FALSE, version |-> <<>>]
NoReview == [ran |-> FALSE, staging |-> <<>>, production |-> <<>>,
             added |-> <<>>, removed |-> <<>>, modified |-> <<>>]
NoOverrides == [overrides |-> <<>>, base |-> <<>>, list |-> <<>>, applied |-> 0,
                first |-> <<>>]
NoFetch == [ran |-> FALSE, head |-> <<>>, encoding |-> "none", outcome |-> "none"]
NoImport == [ran |-> FALSE, ok |-> FALSE, exit |-> 0, reason |-> "none", usable |-> 0]

ToolsIdle ==
    /\ bump = NoBump
    /\ review = NoReview
    /\ ovr = NoOverrides
    /\ fetch = NoFetch
    /\ imp = NoImport

----------------------------------------------------------------------------
(* Bounds of the model *)

MaxLen == 2        \* longest aircraft list drawn as an input
MaxClock == 2      \* last second the clock reaches (it starts at 1)
MaxVer == 1        \* largest version component a bump may produce
MaxBackups == 6    \* most backups present when a rollback-only run starts
MaxComp == 4       \* largest version component handed to bump_version
MaxEntries == 2    \* most entries of an overrides document
MaxHead == 4       \* leading bytes of a fetched payload that are drawn

(* Program constants *)

BackupWindow == 5  \* backups[:5], the selection window of rollback_production

----------------------------------------------------------------------------
(* Registry snapshots *)

RequiredFields == {"version", "last_updated", "total_count", "aircraft"}

Regs == {"A", "B"}

\* One element of the aircraft array.  kind "obj" is a JSON object whose
\* registration is absent ("none"), the empty string ("") or a code; "num" is
\* a JSON number, "str" a JSON string that does not contain the text
\* "registration".
ObjItem(r) == [kind |-> "obj", reg |-> r]
NumItem == [kind |-> "num", reg |-> "none"]
StrItem == [kind |-> "str", reg |-> "none"]
Items == {ObjItem(r) : r \in Regs \cup {"none", ""}} \cup {NumItem, StrItem}

ItemSeqs(n) == UNION {[1..k -> Items] : k \in 0..n}

\* The aircraft value: a list of items, or (isList = FALSE) a JSON null.
ListOf(items) == [isList |-> TRUE, items |-> items]
NotAList == [isList |-> FALSE, items |-> <<>>]

\* The total_count value: an integer, or (isInt = FALSE) the float of the
\* same magnitude (2.0 == 2 in Python, but isinstance(2.0, int) is False).
IntCount(n) == [isInt |-> TRUE, val |-> n]
FloatCount(n) == [isInt |-> FALSE, val |-> n]

Restrict(f, S) == [x \in S |-> f[x]]

\* A snapshot document with the top-level keys `present'.
Snapshot(present, count, aircraft, rel) ==
    Restrict([version |-> "1.0.0", last_updated |-> "t",
              total_count |-> count, aircraft |-> aircraft,
              released_at |-> rel], present)

NoFile == [exists |-> FALSE, data |-> <<>>, fmt |-> "none"]
JsonFile(d, f) == [exists |-> TRUE, data |-> d, fmt |-> f]

\* A file whose content json.load rejects (JSONDecodeError).
NotJson == [exists |-> TRUE, data |-> <<>>, fmt |-> "notjson"]

HasField(d, f) == f \in DOMAIN d

----------------------------------------------------------------------------
(* src/validate.py *)

\* validate_basic_structure: required fields, aircraft a list, total_count an
\* int, count consistency.  Nothing is checked per record.
validate_basic_structure(file) ==
    LET d == file.data IN
    IF file.fmt = "notjson" THEN FALSE
    ELSE IF ~(RequiredFields \subseteq DOMAIN d) THEN FALSE
    ELSE IF ~d.aircraft.isList THEN FALSE
    ELSE IF ~d.total_count.isInt THEN FALSE
    ELSE IF Len(d.aircraft.items) # d.total_count.val THEN FALSE
    ELSE TRUE

\* The first loop of validate_custom_rules over a list: FALSE at the first
\* non-object or at the first registration already seen; empty or missing
\* registrations are skipped by `if registration:'.
RECURSIVE DuplicateScan(_, _)
DuplicateScan(items, seen) ==
    IF items = <<>> THEN TRUE
    ELSE LET a == Head(items) IN
         IF a.kind # "obj" THEN FALSE
         ELSE IF a.reg \notin {"none", ""}
              THEN IF a.reg \in seen THEN FALSE
                   ELSE DuplicateScan(Tail(items), seen \cup {a.reg})
              ELSE DuplicateScan(Tail(items), seen)

\* The second loop: every record has a non-empty registration.
RequiredScan(items) ==
    \A i \in 1..Len(items) : items[i].reg \notin {"none", ""}

\* validate_custom_rules(data).  data.get('aircraft', []) of a document
\* without the key is the empty list; enumerate() of a null raises TypeError,
\* which the caller's `except Exception' turns into a failed validation.
validate_custom_rules(d) ==
    IF ~HasField(d, "aircraft") THEN TRUE
    ELSE IF ~d.aircraft.isList THEN FALSE
    ELSE DuplicateScan(d.aircraft.items, {}) /\ RequiredScan(d.aircraft.items)

\* validate_aircraft_registry(data_file, schema_file): sch is "absent" or the
\* verdict of jsonschema.validate on this data (the schema document is not
\* part of the program; either verdict is possible).  Every exception,
\* json.JSONDecodeError included, is a failed validation.
validate_aircraft_registry(file, sch) ==
    IF ~file.exists THEN FALSE
    ELSE IF sch = "absent" THEN validate_basic_structure(file)
    ELSE IF file.fmt = "notjson" THEN FALSE
    ELSE IF sch = "rejects" THEN FALSE
    ELSE validate_custom_rules(file.data)

----------------------------------------------------------------------------
(* Version strings (src/release.py) *)

\* A version string is the sequence of its dot-separated components, as
\* str.split('.') yields them.  A component is a decimal integer literal
\* ("int", with its value; int() accepts a sign), a non-numeric text
\* ("alpha") or the empty text ("empty"); int() raises ValueError on the
\* last two.
N(i) == [kind |-> "int", val |-> i]
Alpha == [kind |-> "alpha", val |-> 0]
Empty == [kind |-> "empty", val |-> 0]

V(a, b, c) == <<N(a), N(b), N(c)>>

DefaultVersion == V(1, 0, 0)

NoVersionFile == [exists |-> FALSE, text |-> <<>>]
VersionText(v) == [exists |-> TRUE, text |-> v]

\* get_current_version: the stripped content of VERSION, '1.0.0' without it.
get_current_version(vf) ==
    IF vf.exists THEN vf.text ELSE DefaultVersion

\* Whether unpacking version.split('.') into three names and int() of each
\* succeed inside parse_version.
ParsesCleanly(v) ==
    Len(v) = 3 /\ \A i \in 1..3 : v[i].kind = "int"

\* parse_version: the three integers, or (1, 0, 0) when the ValueError is
\* caught inside the function.
parse_version(v) ==
    IF ParsesCleanly(v) THEN <<v[1].val, v[2].val, v[3].val>>
    ELSE <<1, 0, 0>>

\* Whether parse_version raises ValueError or IndexError to its caller: it
\* never does, its own except clause handles both.
ParseVersionRaises(v) == FALSE

BumpTypes == {"patch", "minor", "major"}

\* Variant of bump_version whose minor bump keeps the patch component.
bump_version_KeepingPatch(current, bump_type) ==
    LET p == parse_version(current) IN
    CASE bump_type = "patch" -> V(p[1], p[2], p[3] + 1)
      [] bump_type = "minor" -> V(p[1], p[2] + 1, p[3])
      [] bump_type = "major" -> V(p[1] + 1, 0, 0)

\* The else branch of bump_version: raise ValueError("Invalid bump type").
bump_version_raises(bump_type) == bump_type \notin BumpTypes

\* bump_version for the three bump types (any other raises ValueError).
bump_version(current, bump_type) ==
    LET p == parse_version(current) IN
    CASE bump_type = "patch" -> V(p[1], p[2], p[3] + 1)
      [] bump_type = "minor" -> V(p[1], p[2] + 1, 0)
      [] bump_type = "major" -> V(p[1] + 1, 0, 0)

\* Three dot-separated non-negative integers.
IsSemVer(v) ==
    Len(v) = 3 /\ \A i \in 1..3 : v[i].kind = "int" /\ v[i].val >= 0

\* prompt_version_update, one pass of its loop on the menu answer c and, for
\* answer '5', the custom text: [returned, version, msg].  returned = FALSE is
\* the `continue' back to the prompt; msg says whether commit_message is a
\* (non-empty) string rather than None.
prompt_version_update(vf, c, custom) ==
    LET cur == get_current_version(vf) IN
    CASE c = "1" -> [returned |-> TRUE, version |-> bump_version(cur, "patch"), msg |-> TRUE]
      [] c = "2" -> [returned |-> TRUE, version |-> bump_version(cur, "minor"), msg |-> TRUE]
      [] c = "3" -> [returned |-> TRUE, version |-> bump_version(cur, "major"), msg |-> TRUE]
      [] c = "4" -> [returned |-> TRUE, version |-> cur, msg |-> FALSE]
      [] c = "5" -> IF ParseVersionRaises(custom)
                    THEN [returned |-> FALSE, version |-> cur, msg |-> FALSE]
                    ELSE [returned |-> TRUE, version |-> custom, msg |-> TRUE]
      [] OTHER   -> [returned |-> FALSE, version |-> cur, msg |-> FALSE]

\* update_version_file: VERSION is rewritten as new_version + '\n' (read back
\* stripped); when open() fails the file is left as it was.
update_version_file(vf, new_version, writeOk) ==
    IF writeOk THEN VersionText(new_version) ELSE vf

----------------------------------------------------------------------------
(* Staging gate (src/release.py) *)

\* validate_staging on an existing, parseable file: "True", "False", or
\* "raise" when `field not in sample' is evaluated on a JSON number
\* (TypeError, which no except clause of the function catches).
validate_staging(file) ==
    LET d == file.data IN
    IF ~file.exists THEN "False"
    ELSE IF file.fmt = "notjson" THEN "False"
    ELSE IF ~(RequiredFields \subseteq DOMAIN d) THEN "False"
    ELSE IF ~d.aircraft.isList THEN "False"
    ELSE IF d.total_count.val # Len(d.aircraft.items) THEN "False"
    ELSE IF d.aircraft.items = <<>> THEN "True"
    ELSE LET sample == d.aircraft.items[1] IN
         CASE sample.kind = "num" -> "raise"
           [] sample.kind = "str" -> "False"
           [] OTHER -> IF sample.reg = "none" THEN "False" ELSE "True"

\* input(...).strip().lower() on the answers drawn below.
StripLower(r) ==
    CASE r = "YES" -> "yes"
      [] r = " Y " -> "y"
      [] r = "Cancel" -> "cancel"
      [] OTHER -> r

Affirmative(r) == StripLower(r) \in {"yes", "y"}

\* Variant of SetReleasedAt that also refreshes last_updated.
SetReleasedAt_TouchingLastUpdated(d, now) ==
    [f \in DOMAIN d \cup {"released_at"} |->
        IF f = "released_at" THEN now
        ELSE IF f = "last_updated" THEN "released" ELSE d[f]]

\* data['released_at'] = now: the key is added, or overwritten when present.
SetReleasedAt(d, now) ==
    [f \in DOMAIN d \cup {"released_at"} |->
        IF f = "released_at" THEN now ELSE d[f]]

----------------------------------------------------------------------------
(* Backups *)

RECURSIVE SortDesc(_)
\* sorted(..., reverse=True) of the backup names; a name embeds the
\* fixed-width timestamp, so name order is timestamp order.
SortDesc(S) ==
    IF S = {} THEN <<>>
    ELSE LET m == CHOOSE x \in S : \A y \in S : y <= x
         IN <<m>> \o SortDesc(S \ {m})

Min(a, b) == IF a <= b THEN a ELSE b

\* Variant of Window without the limit of five.
Window_Unlimited(list) == list

\* backups[:5]
Window(list) == SubSeq(list, 1, Min(BackupWindow, Len(list)))

----------------------------------------------------------------------------
(* Inputs *)

FullSnapshot(items) ==
    Snapshot(RequiredFields, IntCount(Len(items)), ListOf(items), 0)

\* A snapshot as a release leaves it in production: released_at is present.
ReleasedSnapshot(items, rel) ==
    Snapshot(RequiredFields \cup {"released_at"}, IntCount(Len(items)),
             ListOf(items), rel)

\* The production file found when the model starts: released in the past.
OldProduction ==
    JsonFile(ReleasedSnapshot(<<ObjItem("A")>>, 0), "indent2")

\* Staging files a release may find: none; one that is not JSON; every list up to MaxLen with a
\* consistent count, as the importer writes it; and hand-edited documents
\* with a required key missing, a non-list aircraft value, a wrong or
\* non-integer count, or a released_at key (a copy of a production file).
StagingInputs ==
    {NoFile, NotJson}
    \cup {JsonFile(FullSnapshot(items), "indent2") : items \in ItemSeqs(MaxLen)}
    \cup {JsonFile(Restrict(FullSnapshot(<<ObjItem("A")>>), RequiredFields \ {f}), "raw") :
            f \in RequiredFields}
    \cup {JsonFile(Snapshot(RequiredFields, IntCount(0), NotAList, 0), "raw"),
          JsonFile(Snapshot(RequiredFields, IntCount(MaxLen + 1), ListOf(<<ObjItem("A")>>), 0), "raw"),
          JsonFile(Snapshot(RequiredFields, FloatCount(1), ListOf(<<ObjItem("A")>>), 0), "raw"),
          JsonFile(ReleasedSnapshot(<<ObjItem("A"), ObjItem("B")>>, 0), "raw")}

MenuAnswers == {"1", "2", "3", "4", "5", "x"}

\* Custom version texts typed at answer '5': a well-formed one, "abc", "1.0",
\* "-1.0.0" and the empty text.
CustomInputs ==
    {V(MaxVer, 0, 0), <<Alpha>>, <<N(1), N(0)>>, V(-1, 0, 0), <<Empty>>}

ConfirmInputs == {"yes", "y", "YES", " Y ", "no", ""}

\* Answers to the rollback selection prompt: texts, and integer literals
\* around the window.
Selection(kind, txt, val) == [kind |-> kind, txt |-> txt, val |-> val]
SelectionInputs ==
    {Selection("text", t, 0) : t \in {"cancel", "Cancel", "abc", ""}}
    \cup {Selection("int", "", k) : k \in -1..(MaxBackups + 1)}

PreState ==
    [production |-> production, staging |-> staging, backupsDir |-> backupsDir,
     backups |-> backups, versionFile |-> versionFile]

NoBackup == [made |-> FALSE, ts |-> 0]

Outcome(op, ret, reason) ==
    [op |-> op, ret |-> ret, reason |-> reason,
     sel |-> Selection("text", "", 0), conf |-> ""]

NoValidation == [ran |-> FALSE, file |-> NoFile, sch |-> "absent", ret |-> FALSE]

----------------------------------------------------------------------------
(* Initial states *)

\* The staging files of the long-running specification: none, a valid list,
\* a list repeating a registration, a wrong count, and a copy of a released
\* production file.
StagingSample ==
    {NoFile,
     JsonFile(FullSnapshot(<<ObjItem("A"), ObjItem("B")>>), "indent2"),
     JsonFile(FullSnapshot(<<ObjItem("A"), ObjItem("A")>>), "indent2"),
     JsonFile(Snapshot(RequiredFields, IntCount(MaxLen + 1), ListOf(<<ObjItem("A")>>), 0), "raw"),
     JsonFile(ReleasedSnapshot(<<ObjItem("A"), ObjItem("B")>>, 0), "raw")}

Init ==
    /\ staging \in StagingSample
    /\ production \in {NoFile, OldProduction}
    /\ backupsDir = FALSE
    /\ backups = <<>>
    /\ versionFile = NoVersionFile
    /\ schema = "absent"
    /\ clock = 1
    /\ pc = "idle"
    /\ force = FALSE
    /\ choice = "none"
    /\ bk = NoBackup
    /\ vres = NoValidation
    /\ pre = PreState
    /\ result = Outcome("none", "none", "none")
    /\ ToolsIdle

----------------------------------------------------------------------------
(* release_to_production, step by step *)

Files == <<staging, production, backupsDir, backups, versionFile, schema>>

\* `return False' (or an exception leaving the function) with nothing else done.
Finish(ret, reason) ==
    /\ pc' = "idle"
    /\ result' = Outcome("release", ret, reason)

\* Entry: the operator starts a release, forced or interactive.
StartRelease(f) ==
    /\ pc = "idle"
    /\ pc' = "validate"
    /\ force' = f
    /\ choice' = "none"
    /\ bk' = NoBackup
    /\ pre' = PreState
    /\ result' = Outcome("release", "running", "none")
    /\ UNCHANGED <<Files, clock, vres>>

\* VALIDATE_STAGING: the existence check and validate_staging.  A TypeError
\* out of validate_staging is not caught: the process ends with a traceback.
ValidateStaging ==
    /\ pc = "validate"
    /\ IF ~staging.exists THEN Finish("False", "staging_not_found")
       ELSE CASE validate_staging(staging) = "raise" -> Finish("raised", "validation_raised")
              [] validate_staging(staging) = "False" -> Finish("False", "validation_failed")
              [] OTHER -> /\ pc' = IF force THEN "backup" ELSE "version"
                          /\ UNCHANGED result
    /\ UNCHANGED <<Files, clock, force, choice, bk, vres, pre>>

\* Whether the model follows a version: its components stay within MaxVer.
WithinBound(v) == \A i \in 1..Len(v) : v[i].val <= MaxVer

\* VERSION_DECISION: one answer to the menu.  A returned decision with a
\* commit message is written to VERSION at once (update_version_file), before
\* the confirmation prompt; a failed write aborts the release.  The git
\* commit that follows a successful write changes no file of the model and
\* its failure is only a warning.
VersionDecision(c, custom, writeOk) ==
    /\ pc = "version"
    /\ LET r == prompt_version_update(versionFile, c, custom) IN
       /\ WithinBound(r.version)
       /\ IF ~r.returned
          THEN UNCHANGED <<pc, versionFile, choice, result>>
          ELSE /\ choice' = c
               /\ IF r.msg
                  THEN /\ versionFile' = update_version_file(versionFile, r.version, writeOk)
                       /\ IF writeOk
                          THEN pc' = "confirm" /\ UNCHANGED result
                          ELSE Finish("False", "version_update_failed")
                  ELSE /\ pc' = "confirm"
                       /\ UNCHANGED <<versionFile, result>>
    /\ UNCHANGED <<staging, production, backupsDir, backups, schema,
                   clock, force, bk, vres, pre>>

\* Variant of Confirm in which the production file is cleared for the new
\* content before the operator is asked.
Confirm_AfterClearingProduction(response) ==
    /\ pc = "confirm"
    /\ production' = NoFile
    /\ IF Affirmative(response)
       THEN pc' = "backup" /\ UNCHANGED result
       ELSE Finish("False", "cancelled")
    /\ UNCHANGED <<staging, backupsDir, backups, versionFile, schema,
                   clock, force, choice, bk, vres, pre>>

\* CONFIRM: anything but yes / y cancels the release.
Confirm(response) ==
    /\ pc = "confirm"
    /\ IF Affirmative(response)
       THEN pc' = "backup" /\ UNCHANGED result
       ELSE Finish("False", "cancelled")
    /\ UNCHANGED <<Files, clock, force, choice, bk, vres, pre>>

\* Variant of backup_production that copies the staging file (what production
\* holds once the promotion has run) instead of the current production file.
backup_production_OfStaging(fault) ==
    IF ~production.exists
    THEN /\ bk' = NoBackup
         /\ UNCHANGED <<backupsDir, backups>>
    ELSE CASE fault = "mkdir" -> UNCHANGED <<backupsDir, backups, bk>>
           [] fault = "copy"  -> backupsDir' = TRUE /\ UNCHANGED <<backups, bk>>
           [] OTHER ->
                /\ backupsDir' = TRUE
                /\ backups' = [t \in DOMAIN backups \cup {clock} |->
                                 IF t = clock THEN staging ELSE backups[t]]
                /\ bk' = [made |-> TRUE, ts |-> clock]

\* backup_production applied to the file system: without a production file
\* nothing is done; otherwise backups/ is created and production is copied
\* to the name of the current second, replacing a file of that name.
\* fault is "none", "mkdir" (the directory cannot be created) or "copy"
\* (the copy cannot be opened).
backup_production(fault) ==
    IF ~production.exists
    THEN /\ bk' = NoBackup
         /\ UNCHANGED <<backupsDir, backups>>
    ELSE CASE fault = "mkdir" -> UNCHANGED <<backupsDir, backups, bk>>
           [] fault = "copy"  -> backupsDir' = TRUE /\ UNCHANGED <<backups, bk>>
           [] OTHER ->
                /\ backupsDir' = TRUE
                /\ backups' = [t \in DOMAIN backups \cup {clock} |->
                                 IF t = clock THEN production ELSE backups[t]]
                /\ bk' = [made |-> TRUE, ts |-> clock]

\* BACKUP: an exception of backup_production ends the release in the
\* `except Exception' clause.
Backup(fault) ==
    /\ pc = "backup"
    /\ backup_production(fault)
    /\ IF production.exists /\ fault # "none"
       THEN Finish("False", "backup_failed")
       ELSE pc' = "promote" /\ UNCHANGED result
    /\ UNCHANGED <<staging, production, versionFile, schema,
                   clock, force, choice, vres, pre>>

\* shutil.copy2(staging_file, prod_file): production becomes a byte copy.
PromotedFile == staging

\* PROMOTE; when the destination cannot be opened nothing is written and the
\* release ends in the except clause.
Promote(ok) ==
    /\ pc = "promote"
    /\ IF ok
       THEN /\ production' = PromotedFile
            /\ pc' = "stamp"
            /\ UNCHANGED result
       ELSE /\ UNCHANGED production
            /\ Finish("False", "promote_failed")
    /\ UNCHANGED <<staging, backupsDir, backups, versionFile, schema,
                   clock, force, choice, bk, vres, pre>>

\* The production file after json.load, data['released_at'] = now, json.dump.
StampedFile == JsonFile(SetReleasedAt(production.data, clock), "indent2")

\* STAMP and the successful return.
Stamp ==
    /\ pc = "stamp"
    /\ production' = StampedFile
    /\ Finish("True", "released")
    /\ UNCHANGED <<staging, backupsDir, backups, versionFile, schema,
                   clock, force, choice, bk, vres, pre>>

----------------------------------------------------------------------------
(* rollback_production *)

\* What rollback_production returns and, on success, the backup it restores:
\* [ret, reason, ts].
rollback_decision(sel, confirm) ==
    LET list == SortDesc(DOMAIN backups)
        idx == sel.val - 1
    IN  IF ~backupsDir THEN [ret |-> "False", reason |-> "no_backups_dir", ts |-> 0]
        ELSE IF list = <<>> THEN [ret |-> "False", reason |-> "no_backup_files", ts |-> 0]
        ELSE IF sel.kind = "text"
             THEN IF StripLower(sel.txt) = "cancel"
                  THEN [ret |-> "False", reason |-> "cancelled", ts |-> 0]
                  ELSE [ret |-> "False", reason |-> "invalid_input", ts |-> 0]
        ELSE IF idx < 0 \/ idx >= Len(Window(list))
             THEN [ret |-> "False", reason |-> "invalid_selection", ts |-> 0]
        ELSE IF ~Affirmative(confirm)
             THEN [ret |-> "False", reason |-> "not_confirmed", ts |-> 0]
        ELSE [ret |-> "True", reason |-> "rolled_back", ts |-> list[idx + 1]]

\* Variant of RestoredFile that always restores the newest backup.
RestoredFile_Newest(ts) ==
    backups[CHOOSE t \in DOMAIN backups : \A u \in DOMAIN backups : u <= t]

\* The file shutil.copy2(selected_backup, 'aircraft.json') leaves (the copy
\* is taken to complete).
RestoredFile(ts) == backups[ts]

Rollback(sel, confirm) ==
    /\ pc = "idle"
    /\ LET d == rollback_decision(sel, confirm) IN
       /\ production' = IF d.ret = "True" THEN RestoredFile(d.ts) ELSE production
       /\ result' = [Outcome("rollback", d.ret, d.reason) EXCEPT !.sel = sel, !.conf = confirm]
    /\ pre' = PreState
    /\ UNCHANGED <<staging, backupsDir, backups, versionFile, schema,
                   clock, pc, force, choice, bk, vres>>

----------------------------------------------------------------------------
(* Time *)

Tick ==
    /\ clock < MaxClock
    /\ clock' = clock + 1
    /\ UNCHANGED <<Files, pc, force, choice, bk, vres, pre, result>>

----------------------------------------------------------------------------
(* validate.py run from the command line *)

\* main(): validate_aircraft_registry on the file named on the command line.
ValidateRun(file) ==
    /\ pc = "idle"
    /\ vres' = [ran |-> TRUE, file |-> file, sch |-> schema,
                ret |-> validate_aircraft_registry(file, schema)]
    /\ UNCHANGED <<Files, clock, pc, force, choice, bk, pre, result>>

----------------------------------------------------------------------------
(* Specification of the release manager: any sequence of releases and      *)
(* rollbacks while the clock runs, on a sample of staging files; the       *)
(* version menu is answered patch, skip, custom or with an invalid key.    *)

Next ==
    \/ \E f \in BOOLEAN : StartRelease(f) /\ UNCHANGED toolVars
    \/ ValidateStaging /\ UNCHANGED toolVars
    \/ \E c \in {"1", "4", "5", "x"}, custom \in {<<Alpha>>}, w \in BOOLEAN :
          VersionDecision(c, custom, w) /\ UNCHANGED toolVars
    \/ \E r \in {"yes", "no"} : Confirm(r) /\ UNCHANGED toolVars
    \/ \E fault \in {"none", "mkdir", "copy"} : Backup(fault) /\ UNCHANGED toolVars
    \/ \E ok \in BOOLEAN : Promote(ok) /\ UNCHANGED toolVars
    \/ Stamp /\ UNCHANGED toolVars
    \/ \E sel \in {Selection("text", "cancel", 0)}
                    \cup {Selection("int", "", k) : k \in 1..MaxClock},
          r \in {"yes", "no"} : Rollback(sel, r) /\ UNCHANGED toolVars
    \/ Tick /\ UNCHANGED toolVars

Spec == Init /\ [][Next]_vars

----------------------------------------------------------------------------
(* One release attempt from every initial file system, with every input    *)
(* to its prompts.                                                         *)

\* Backups taken in the past: n of them, at the seconds 1-n .. 0, each the
\* production file of its time.
OldBackup(t) == JsonFile(ReleasedSnapshot(<<ObjItem("A")>>, t - 1), "indent2")
OldBackups(n) == [t \in (1 - n)..0 |-> OldBackup(t)]

InitAttempt ==
    /\ staging \in StagingInputs
    /\ production \in {NoFile, OldProduction}
    /\ \E n \in 0..1 : backups = OldBackups(n) /\ backupsDir = (n > 0)
    /\ versionFile \in {NoVersionFile, VersionText(V(0, 0, 0)), VersionText(<<Alpha>>)}
    /\ schema = "absent"
    /\ clock = 1
    /\ pc = "idle"
    /\ force = FALSE
    /\ choice = "none"
    /\ bk = NoBackup
    /\ vres = NoValidation
    /\ pre = PreState
    /\ result = Outcome("none", "none", "none")
    /\ ToolsIdle

NextAttempt ==
    \/ \E f \in BOOLEAN : result.op = "none" /\ StartRelease(f) /\ UNCHANGED toolVars
    \/ ValidateStaging /\ UNCHANGED toolVars
    \/ \E c \in MenuAnswers, custom \in CustomInputs, w \in BOOLEAN :
          VersionDecision(c, custom, w) /\ UNCHANGED toolVars
    \/ \E r \in ConfirmInputs : Confirm(r) /\ UNCHANGED toolVars
    \/ \E fault \in {"none", "mkdir", "copy"} : Backup(fault) /\ UNCHANGED toolVars
    \/ \E ok \in BOOLEAN : Promote(ok) /\ UNCHANGED toolVars
    \/ Stamp /\ UNCHANGED toolVars

SpecAttempt == InitAttempt /\ [][NextAttempt]_vars

----------------------------------------------------------------------------
(* Rollbacks alone, on backup sets smaller and larger than the window.     *)

InitRollback ==
    /\ staging \in {NoFile, JsonFile(FullSnapshot(<<ObjItem("B")>>), "indent2")}
    /\ production \in {NoFile, OldProduction}
    /\ \E n \in 0..MaxBackups, dir \in BOOLEAN :
          /\ n > 0 => dir
          /\ backups = OldBackups(n)
          /\ backupsDir = dir
    /\ versionFile = NoVersionFile
    /\ schema = "absent"
    /\ clock = 1
    /\ pc = "idle"
    /\ force = FALSE
    /\ choice = "none"
    /\ bk = NoBackup
    /\ vres = NoValidation
    /\ pre = PreState
    /\ result = Outcome("none", "none", "none")
    /\ ToolsIdle

NextRollback ==
    \E sel \in SelectionInputs, r \in ConfirmInputs :
        Rollback(sel, r) /\ UNCHANGED toolVars

SpecRollback == InitRollback /\ [][NextRollback]_vars

----------------------------------------------------------------------------
(* The validator alone, on every snapshot of the bounded shape.            *)

ValidatorInputs ==
    {JsonFile(Restrict(Snapshot(RequiredFields, c, a, 0), present), "indent2") :
        present \in {RequiredFields} \cup {RequiredFields \ {f} : f \in RequiredFields},
        c \in {IntCount(n) : n \in 0..MaxLen} \cup {FloatCount(MaxLen)},
        a \in {ListOf(items) : items \in ItemSeqs(MaxLen)} \cup {NotAList}}

InitValidate ==
    /\ staging = NoFile
    /\ production \in ValidatorInputs \cup {NoFile, NotJson}
    /\ backupsDir = FALSE
    /\ backups = <<>>
    /\ versionFile = NoVersionFile
    /\ schema \in {"absent", "accepts", "rejects"}
    /\ clock = 1
    /\ pc = "idle"
    /\ force = FALSE
    /\ choice = "none"
    /\ bk = NoBackup
    /\ vres = NoValidation
    /\ pre = PreState
    /\ result = Outcome("none", "none", "none")
    /\ ToolsIdle

NextValidate == ValidateRun(production) /\ UNCHANGED toolVars

SpecValidate == InitValidate /\ [][NextValidate]_vars

----------------------------------------------------------------------------
(* Properties *)

\* The item is an object with a non-empty registration.
NonEmptyReg(it) == it.kind = "obj" /\ it.reg \notin {"none", ""}

\* Two positions of the list hold the same (non-empty) registration.
HasDuplicate(items) ==
    \E i, j \in 1..Len(items) :
        i < j /\ NonEmptyReg(items[i]) /\ NonEmptyReg(items[j])
              /\ items[i].reg = items[j].reg

\* The structural rules a valid snapshot satisfies: required top-level fields,
\* aircraft a list, total_count an integer equal to its length, every record
\* an object with a non-empty registration, no registration twice.
WellFormed(d) ==
    /\ RequiredFields \subseteq DOMAIN d
    /\ d.aircraft.isList
    /\ d.total_count.isInt
    /\ d.total_count.val = Len(d.aircraft.items)
    /\ \A i \in 1..Len(d.aircraft.items) : NonEmptyReg(d.aircraft.items[i])
    /\ ~HasDuplicate(d.aircraft.items)

ReleaseEnded == pc = "idle" /\ result.op = "release"
Released == ReleaseEnded /\ result.ret = "True"
InRelease == pc # "idle" \/ result.op = "release"

AbortReasons ==
    {"staging_not_found", "validation_failed", "version_update_failed", "cancelled"}

\* C1: a release attempt that ends in ABORT (staging missing, staging
\* validation failed, VERSION update failed, confirmation not affirmative)
\* leaves the production file exactly as it was and creates no backup.
C1_AbortLeavesProduction ==
    (ReleaseEnded /\ result.ret = "False" /\ result.reason \in AbortReasons)
        => /\ production = pre.production
           /\ backups = pre.backups
           /\ backupsDir = pre.backupsDir

\* An interactive release of a valid staging file over an existing production
\* file was cancelled at the confirmation prompt.
C1_Witness ==
    /\ ReleaseEnded
    /\ result.reason = "cancelled"
    /\ pre.production.exists
    /\ WellFormed(staging.data)

\* C2: a release whose staging snapshot violates a Validator rule ends in
\* ABORT and never reaches BACKUP, PROMOTE or a successful return, forced or
\* interactive.
C2_GateAppliesValidator ==
    (pc \in {"backup", "promote", "stamp"} \/ Released)
        => (staging.exists /\ WellFormed(staging.data))

\* C3 as stated: after a successful release production holds every top-level
\* field of staging with identical values plus exactly one additional field,
\* released_at, and staging is unchanged.
C3_Original ==
    Released =>
        /\ \A f \in DOMAIN staging.data :
              f \in DOMAIN production.data /\ production.data[f] = staging.data[f]
        /\ "released_at" \notin DOMAIN staging.data
        /\ DOMAIN production.data = DOMAIN staging.data \cup {"released_at"}
        /\ staging = pre.staging

\* C3 as amended: after a successful release production holds every top-level
\* field of staging other than released_at with an identical value (the
\* aircraft records among them), its fields are those of staging together
\* with released_at, released_at is the release time whether staging carried
\* the key or not, and staging is unchanged.
C3_ProductionIsStagingStamped ==
    Released =>
        /\ DOMAIN production.data = DOMAIN staging.data \cup {"released_at"}
        /\ \A f \in DOMAIN staging.data \ {"released_at"} :
              production.data[f] = staging.data[f]
        /\ production.data["released_at"] = clock
        /\ staging = pre.staging

\* A release succeeded on a staging file that already carried released_at.
C3_Witness ==
    /\ Released
    /\ "released_at" \in DOMAIN staging.data
    /\ Len(staging.data["aircraft"].items) = 2

\* C4: the steps run in the order BACKUP, PROMOTE, STAMP.  With a production
\* file present, production is still the pre-release file up to and including
\* the moment it is about to be overwritten, and by then a backup holding that
\* file verbatim exists; between PROMOTE and STAMP production is the verbatim
\* staging copy; a failed backup leaves production untouched; without a
\* production file no backup is made, the backup step cannot fail, and the
\* release goes on.
C4_BackupPromoteStamp ==
    InRelease =>
        /\ pc \in {"validate", "version", "confirm", "backup", "promote"}
              => production = pre.production
        /\ (pc \in {"promote", "stamp"} \/ Released) /\ pre.production.exists
              => /\ bk.made
                 /\ bk.ts \in DOMAIN backups
                 /\ backups[bk.ts] = pre.production
        /\ pc = "stamp" => production = staging
        /\ (ReleaseEnded /\ result.reason = "backup_failed")
              => production = pre.production /\ pre.production.exists
        /\ (pc \in {"promote", "stamp"} \/ Released) /\ ~pre.production.exists
              => ~bk.made /\ backups = pre.backups

\* A release over an existing production file completed, its backup in place.
C4_Witness ==
    /\ Released
    /\ pre.production.exists
    /\ bk.made
    /\ production # pre.production

\* A first-ever release (no production file) completed without a backup.
C4_WitnessFirstRelease ==
    Released /\ ~pre.production.exists /\ ~bk.made

\* The k-th backup in newest-first order: exactly k-1 backups are newer.
KthNewest(k) ==
    CHOOSE t \in DOMAIN backups :
        Cardinality({u \in DOMAIN backups : u > t}) = k - 1

InWindow(k) == 1 <= k /\ k <= Min(BackupWindow, Cardinality(DOMAIN backups))

\* C5: after a rollback given a numeric selection k, 1 <= k <= min(5, number
\* of backups), and an affirmative confirmation, the production file is
\* byte-identical to the k-th backup in newest-first order.
C5_RollbackRestoresKth ==
    (/\ result.op = "rollback"
     /\ result.sel.kind = "int"
     /\ InWindow(result.sel.val)
     /\ Affirmative(result.conf))
        => /\ result.ret = "True"
           /\ production = backups[KthNewest(result.sel.val)]

\* The fifth of more than five backups was restored over another file.
C5_Witness ==
    /\ result.op = "rollback"
    /\ result.ret = "True"
    /\ result.sel.val = BackupWindow
    /\ Cardinality(DOMAIN backups) > BackupWindow
    /\ production = backups[KthNewest(BackupWindow)]
    /\ production # pre.production

\* The inputs on which a rollback must change nothing.
RollbackNegative ==
    \/ ~pre.backupsDir
    \/ DOMAIN pre.backups = {}
    \/ result.sel.kind = "text"
    \/ ~InWindow(result.sel.val)
    \/ ~Affirmative(result.conf)

\* C6: a rollback with no backup directory, no backup file, a selection that
\* is 'cancel', non-numeric, below 1 or above min(5, number of backups), or a
\* non-affirmative confirmation leaves production unchanged; every rollback
\* leaves staging and the backup set unchanged.
C6_RollbackFrame ==
    result.op = "rollback" =>
        /\ staging = pre.staging
        /\ backups = pre.backups
        /\ backupsDir = pre.backupsDir
        /\ RollbackNegative => (production = pre.production /\ result.ret = "False")

\* Selection 6 of more than five backups, confirmed, was refused.
C6_Witness ==
    /\ result.op = "rollback"
    /\ result.sel.kind = "int"
    /\ result.sel.val = BackupWindow + 1
    /\ Cardinality(DOMAIN backups) > BackupWindow
    /\ Affirmative(result.conf)
    /\ result.ret = "False"
    /\ pre.production.exists

\* Two records of the document share a registration.
DocumentHasDuplicate(d) ==
    /\ HasField(d, "aircraft")
    /\ d["aircraft"].isList
    /\ HasDuplicate(d["aircraft"].items)

\* C7: validate_aircraft_registry fails for every snapshot in which two
\* records share a registration, with or without a schema document, and
\* without one it still applies every structural rule.
C7_ValidatorRejectsDuplicates ==
    (vres.ran /\ vres.ret) =>
        /\ ~DocumentHasDuplicate(vres.file.data)
        /\ vres.sch = "absent" => WellFormed(vres.file.data)

\* C8: when the operator answers the final confirmation with anything but
\* yes / y, production, staging, the backups and the VERSION file are all as
\* they were before the attempt, whatever version option was chosen.
C8_UserAbortMutatesNothing ==
    (ReleaseEnded /\ result.reason = "cancelled") =>
        /\ production = pre.production
        /\ staging = pre.staging
        /\ backups = pre.backups
        /\ backupsDir = pre.backupsDir
        /\ versionFile = pre.versionFile

\* C9: once a backup file exists, no step removes it or changes its content.
C9_BackupsImmutable ==
    [][\A t \in DOMAIN backups :
          t \in DOMAIN backups' /\ backups'[t] = backups[t]]_vars

\* C10: a custom version is accepted, and written to VERSION, only if it is
\* three dot-separated non-negative integers.
C10_CustomVersionIsSemVer ==
    (pc = "confirm" /\ choice = "5") =>
        (versionFile.exists /\ IsSemVer(versionFile.text))

----------------------------------------------------------------------------
(* bump_version alone, on every version text of the bounded shape.         *)

\* The release manager's files and position before anything has run, with
\* no file present.
ReleaseIdle ==
    /\ staging = NoFile
    /\ production = NoFile
    /\ backupsDir = FALSE
    /\ backups = <<>>
    /\ versionFile = NoVersionFile
    /\ schema = "absent"
    /\ clock = 1
    /\ pc = "idle"
    /\ force = FALSE
    /\ choice = "none"
    /\ bk = NoBackup
    /\ vres = NoValidation
    /\ pre = PreState
    /\ result = Outcome("none", "none", "none")

\* Current versions: every a.b.c up to MaxComp, and the texts "abc", "1.0",
\* "-1.0.0" and "".
BumpInputs ==
    {V(a, b, c) : a, b, c \in 0..MaxComp}
    \cup {<<Alpha>>, <<N(1), N(0)>>, V(-1, 0, 0), <<Empty>>}

BumpKinds == BumpTypes \cup {"build", ""}

\* One call bump_version(current, kind).
BumpRun(current, kind) ==
    /\ bump' = IF bump_version_raises(kind)
               THEN [ran |-> TRUE, current |-> current, kind |-> kind,
                     raised |-> TRUE, version |-> <<>>]
               ELSE [ran |-> TRUE, current |-> current, kind |-> kind,
                     raised |-> FALSE, version |-> bump_version(current, kind)]
    /\ UNCHANGED <<releaseVars, review, ovr, fetch, imp>>

InitBump == ReleaseIdle /\ ToolsIdle

NextBump == \E current \in BumpInputs, kind \in BumpKinds : BumpRun(current, kind)

SpecBump == InitBump /\ [][NextBump]_vars

\* C11: for a current version a.b.c of non-negative integers bump_version
\* returns a.b.(c+1) for patch, a.(b+1).0 for minor and (a+1).0.0 for major,
\* computed from the components of that current version; any other bump kind
\* raises an error.
C11_BumpVersion ==
    bump.ran =>
        /\ bump.kind \notin {"patch", "minor", "major"} => bump.raised
        /\ IsSemVer(bump.current) =>
              LET a == bump.current[1].val
                  b == bump.current[2].val
                  c == bump.current[3].val
              IN  /\ bump.kind = "patch" =>
                        ~bump.raised /\ bump.version = <<N(a), N(b), N(c + 1)>>
                  /\ bump.kind = "minor" =>
                        ~bump.raised /\ bump.version = <<N(a), N(b + 1), N(0)>>
                  /\ bump.kind = "major" =>
                        ~bump.raised /\ bump.version = <<N(a + 1), N(0), N(0)>>

\* 2.3.4 bumped minor gave 2.4.0.
C11_Witness ==
    /\ bump.ran
    /\ bump.current = <<N(2), N(3), N(4)>>
    /\ bump.kind = "minor"
    /\ bump.version = <<N(2), N(4), N(0)>>

\* 2.3.4 bumped patch gave 2.3.5, as in the specification's example.
C11_WitnessPatch ==
    /\ bump.ran
    /\ bump.current = <<N(2), N(3), N(4)>>
    /\ bump.kind = "patch"
    /\ bump.version = <<N(2), N(3), N(5)>>

----------------------------------------------------------------------------
(* review_changes.py: the change report between staging and production.    *)

\* A JSON value of an aircraft record's field: a string or number, or null.
Val(s) == [null |-> FALSE, v |-> s]
Null == [null |-> TRUE, v |-> ""]

\* dict.get(field): the value, or None when the key is missing.
Get(rec, f) == IF f \in DOMAIN rec THEN rec[f] ELSE Null

WatchedFields == {"icao_aircraft_type", "aircraft_type", "mtom"}

\* {aircraft["registration"]: aircraft for aircraft in ...}: a later record
\* with the same registration replaces an earlier one.
create_aircraft_lookup(list) ==
    [r \in {list[i]["registration"].v : i \in DOMAIN list} |->
        list[CHOOSE i \in DOMAIN list :
                /\ list[i]["registration"].v = r
                /\ \A j \in DOMAIN list :
                      list[j]["registration"].v = r => j <= i]]

compare_aircraft(old_aircraft, new_aircraft) ==
    [f \in {g \in WatchedFields : Get(old_aircraft, g) # Get(new_aircraft, g)} |->
        [old |-> Get(old_aircraft, f), new |-> Get(new_aircraft, f)]]

\* analyze_changes on the aircraft lists of the two loaded registries.
analyze_changes(stagingList, productionList) ==
    LET staging_aircraft == create_aircraft_lookup(stagingList)
        production_aircraft == create_aircraft_lookup(productionList)
        added == DOMAIN staging_aircraft \ DOMAIN production_aircraft
        removed == DOMAIN production_aircraft \ DOMAIN staging_aircraft
        common == DOMAIN staging_aircraft \cap DOMAIN production_aircraft
        changes(r) == compare_aircraft(production_aircraft[r], staging_aircraft[r])
    IN  [ran |-> TRUE,
         staging |-> stagingList,
         production |-> productionList,
         added |-> [r \in added |-> staging_aircraft[r]],
         removed |-> [r \in removed |-> production_aircraft[r]],
         modified |-> [r \in {q \in common : DOMAIN changes(q) # {}} |-> changes(r)]]

\* Records for registration r: both type fields present, mtom absent, null
\* or 1000, the unwatched field notes absent or present.
ReviewRecords(r) ==
    LET full == [registration : {Val(r)},
                 icao_aircraft_type : {Val("L2J"), Val("L1P")},
                 aircraft_type : {Val("Foo"), Val("Bar")},
                 mtom : {Null, Val("1000")},
                 notes : {Val("n")}]
        base == {"registration", "icao_aircraft_type", "aircraft_type"}
    IN  {Restrict(rec, base \cup opt) : rec \in full, opt \in SUBSET {"mtom", "notes"}}

OtherRecord ==
    Restrict([registration |-> Val("B"), icao_aircraft_type |-> Val("L2J"),
              aircraft_type |-> Val("Foo"), mtom |-> Val("1000")],
             {"registration", "icao_aircraft_type", "aircraft_type", "mtom"})

\* Aircraft lists of a loaded registry (a missing file loads as the empty list).
ReviewLists ==
    {<<>>, <<OtherRecord>>}
    \cup {<<a>> : a \in ReviewRecords("A")}
    \cup {<<a, OtherRecord>> : a \in ReviewRecords("A")}
    \cup {<<OtherRecord, Restrict(OtherRecord, {"registration"})>>}

\* analyze_changes on the two registries on disk.
ReviewRun ==
    /\ review' = analyze_changes(review.staging, review.production)
    /\ UNCHANGED <<releaseVars, bump, ovr, fetch, imp>>

InitReview ==
    /\ ReleaseIdle
    /\ bump = NoBump /\ ovr = NoOverrides /\ fetch = NoFetch /\ imp = NoImport
    /\ \E s \in ReviewLists, p \in ReviewLists :
          review = [NoReview EXCEPT !.staging = s, !.production = p]

NextReview == ReviewRun

SpecReview == InitReview /\ [][NextReview]_vars

RegsOf(list) == {list[i]["registration"].v : i \in DOMAIN list}

UniqueRegs(list) ==
    \A i, j \in DOMAIN list :
        list[i]["registration"].v = list[j]["registration"].v => i = j

RecordOf(list, r) == list[CHOOSE i \in DOMAIN list : list[i]["registration"].v = r]

\* A field differs between two records when it is present in only one of
\* them, or present in both with unequal values (null is a value).
Differs(old, new, f) ==
    \/ (f \in DOMAIN old) # (f \in DOMAIN new)
    \/ f \in DOMAIN old /\ f \in DOMAIN new /\ old[f] # new[f]

\* The report is exact when every differing field is judged by dict.get.
ReviewExact(differs(_, _, _)) ==
    LET S == RegsOf(review.staging)
        P == RegsOf(review.production)
        old(r) == RecordOf(review.production, r)
        new(r) == RecordOf(review.staging, r)
    IN  /\ DOMAIN review.added = S \ P
        /\ \A r \in S \ P : review.added[r] = new(r)
        /\ DOMAIN review.removed = P \ S
        /\ \A r \in P \ S : review.removed[r] = old(r)
        /\ DOMAIN review.modified =
              {r \in S \cap P : \E f \in WatchedFields : differs(old(r), new(r), f)}
        /\ \A r \in (S \cap P) \cap DOMAIN review.modified :
              /\ DOMAIN review.modified[r] =
                    {f \in WatchedFields : differs(old(r), new(r), f)}
              /\ \A f \in DOMAIN review.modified[r] :
                    /\ review.modified[r][f].old = Get(old(r), f)
                    /\ review.modified[r][f].new = Get(new(r), f)
        /\ DOMAIN review.added \cap DOMAIN review.removed = {}
        /\ DOMAIN review.added \cap DOMAIN review.modified = {}
        /\ DOMAIN review.removed \cap DOMAIN review.modified = {}

\* C12: for two snapshots with unique registrations, added is exactly the
\* registrations only in staging (with the staging record), removed exactly
\* those only in production (with the production record), modified exactly
\* the common registrations with a differing watched field, each mapped to
\* the old/new pairs of the differing watched fields only; the three key
\* sets are pairwise disjoint.
C12_ReportIsExact ==
    (review.ran /\ UniqueRegs(review.staging) /\ UniqueRegs(review.production))
        => ReviewExact(Differs)

GetDiffers(old, new, f) == Get(old, f) # Get(new, f)

\* The report is exact once a missing field is read as null.
ReviewExactUpToMissing ==
    (review.ran /\ UniqueRegs(review.staging) /\ UniqueRegs(review.production))
        => ReviewExact(GetDiffers)

\* Added, removed and a one-field modification are all reported.
ReviewClassifies ==
    /\ review.ran
    /\ DOMAIN review.added = {"B"}
    /\ DOMAIN review.modified = {"A"}
    /\ DOMAIN review.modified["A"] = {"aircraft_type"}
    /\ "notes" \in DOMAIN RecordOf(review.staging, "A")
    /\ "notes" \notin DOMAIN RecordOf(review.production, "A")

\* C17: for a registration in both snapshots, a watched field that is null
\* on one side and missing on the other is reported as an old/new pair and
\* the registration is in modified.
C17_NullVersusMissing ==
    (review.ran /\ UniqueRegs(review.staging) /\ UniqueRegs(review.production)) =>
        \A r \in RegsOf(review.staging) \cap RegsOf(review.production) :
            \A f \in WatchedFields :
                LET old == RecordOf(review.production, r)
                    new == RecordOf(review.staging, r)
                IN  (\/ f \in DOMAIN old /\ old[f] = Null /\ f \notin DOMAIN new
                     \/ f \in DOMAIN new /\ new[f] = Null /\ f \notin DOMAIN old)
                    => /\ r \in DOMAIN review.modified
                       /\ f \in DOMAIN review.modified[r]

----------------------------------------------------------------------------
(* sync_aircraft.py: apply_overrides.                                      *)

\* dict.update(other): other's values win, the remaining fields are kept.
Update(rec, other) ==
    [f \in DOMAIN rec \cup DOMAIN other |->
        IF f \in DOMAIN other THEN other[f] ELSE rec[f]]

\* A dict in insertion order: a sequence of slots with distinct keys.
Slot(k, rec) == [key |-> k, rec |-> rec]

HasKey(d, k) == \E i \in DOMAIN d : d[i].key = k

\* d[k] = rec: an existing key keeps its position, a new one goes last.
DictPut(d, k, rec) ==
    IF HasKey(d, k)
    THEN [i \in DOMAIN d |-> IF d[i].key = k THEN Slot(k, rec) ELSE d[i]]
    ELSE Append(d, Slot(k, rec))

DictGet(d, k) == d[CHOOSE i \in DOMAIN d : d[i].key = k].rec

\* {aircraft["registration"]: aircraft for aircraft in aircraft_list}
RECURSIVE aircraft_dict(_)
aircraft_dict(list) ==
    IF list = <<>> THEN <<>>
    ELSE LET last == list[Len(list)]
         IN  DictPut(aircraft_dict(SubSeq(list, 1, Len(list) - 1)),
                     last["registration"].v, last)

\* reg.startswith('_') on the keys drawn below.
StartsWithUnderscore(reg) == reg \in {"_A", "_comment"}

\* One entry of an overrides document.
Entry(reg, data) == [key |-> reg, data |-> data]

\* One pass of the loop over self.overrides.items().
override_step(d, e) ==
    IF StartsWithUnderscore(e.key) THEN d
    ELSE IF HasKey(d, e.key)
         THEN DictPut(d, e.key, Update(DictGet(d, e.key), e.data))
         ELSE DictPut(d, e.key, Update([registration |-> Val(e.key)], e.data))

RECURSIVE override_loop(_, _)
override_loop(d, overrides) ==
    IF overrides = <<>> THEN d
    ELSE override_loop(override_step(d, Head(overrides)), Tail(overrides))

apply_overrides(aircraft_list, overrides) ==
    IF overrides = <<>> THEN aircraft_list
    ELSE LET d == override_loop(aircraft_dict(aircraft_list), overrides)
         IN  [i \in DOMAIN d |-> d[i].rec]

\* Records the parser produces: registration, both types, mtom an int or None.
ParsedRecord(r, type, mtom) ==
    [registration |-> Val(r), icao_aircraft_type |-> Val("L2J"),
     aircraft_type |-> Val(type), mtom |-> mtom]

BaseRecords ==
    {ParsedRecord("A", "Foo", Val("1000")), ParsedRecord("A", "Bar", Null),
     ParsedRecord("B", "Foo", Val("1000"))}

BaseLists == UNION {[1..k -> BaseRecords] : k \in 0..MaxLen}

\* The fields of an override entry: none, one field, a type with a note, or
\* fields that include registration.
OverrideData ==
    {<<>>,
     [mtom |-> Val("2000")],
     [aircraft_type |-> Val("Baz"), notes |-> Val("n")],
     [registration |-> Val("B"), mtom |-> Val("2000")]}

OverrideKeys == {"A", "B", "_A", "_comment"}

\* Overrides documents: JSON objects, so the keys of a document are distinct.
OverrideDocs ==
    {o \in UNION {[1..k -> {Entry(reg, data) : reg \in OverrideKeys,
                                               data \in OverrideData}] :
                     k \in 0..MaxEntries} :
        \A i, j \in DOMAIN o : o[i].key = o[j].key => i = j}

\* apply_overrides on the current list; the first result is remembered.
ApplyOverrides ==
    /\ ovr.applied < 2
    /\ ovr' = LET out == apply_overrides(ovr.list, ovr.overrides)
              IN  [ovr EXCEPT !.list = out,
                              !.applied = @ + 1,
                              !.first = IF ovr.applied = 0 THEN out ELSE @]
    /\ UNCHANGED <<releaseVars, bump, review, fetch, imp>>

InitOverrides ==
    /\ ReleaseIdle
    /\ bump = NoBump /\ review = NoReview /\ fetch = NoFetch /\ imp = NoImport
    /\ \E b \in BaseLists, o \in OverrideDocs :
          ovr = [overrides |-> o, base |-> b, list |-> b, applied |-> 0,
                 first |-> <<>>]

NextOverrides == ApplyOverrides

SpecOverrides == InitOverrides /\ [][NextOverrides]_vars

Range(list) == {list[i] : i \in DOMAIN list}

\* C14: apply_overrides is idempotent: applying the overrides to the result
\* of a first application gives the same set of records with the same field
\* values as the first application alone.
C14_OverridesIdempotent ==
    ovr.applied = 2 => Range(ovr.list) = Range(ovr.first)

\* The same, for overrides documents whose entries carry no registration field.
IdempotentWithoutRegistrationField ==
    (/\ ovr.applied = 2
     /\ \A i \in DOMAIN ovr.overrides :
           "registration" \notin DOMAIN ovr.overrides[i].data)
        => ovr.list = ovr.first

\* The record of the base list under registration r that the lookup keeps.
LastBase(r) ==
    ovr.base[CHOOSE i \in DOMAIN ovr.base :
                /\ ovr.base[i]["registration"].v = r
                /\ \A j \in DOMAIN ovr.base :
                      ovr.base[j]["registration"].v = r => j <= i]

\* The record a new registration gets: the override fields, and registration
\* set to the key.
Synthesized(e) ==
    [f \in DOMAIN e.data \cup {"registration"} |->
        IF f = "registration" THEN Val(e.key) ELSE e.data[f]]

\* C18: an override entry whose key starts with '_' adds no record and
\* changes no field of any record; every other entry merges its fields into
\* the existing record with that registration (override values win, other
\* fields kept) or, when there is none, adds a record of exactly the override
\* fields plus registration set to the key.
C18_OverrideEntries ==
    ovr.applied = 1 =>
        LET entries == Range(ovr.overrides)
            live == {e \in entries : ~StartsWithUnderscore(e.key)}
            merged == {e \in live : e.key \in RegsOf(ovr.base)}
            new == {e \in live : e.key \notin RegsOf(ovr.base)}
        IN  /\ \A e \in merged : Update(LastBase(e.key), e.data) \in Range(ovr.list)
            /\ \A e \in new : Synthesized(e) \in Range(ovr.list)
            /\ \A rec \in Range(ovr.list) :
                  \/ rec \in Range(ovr.base)
                       /\ \A e \in live : e.key # rec["registration"].v
                  \/ \E e \in merged : rec = Update(LastBase(e.key), e.data)
                  \/ \E e \in new : rec = Synthesized(e)

\* The same, for overrides documents whose entries carry no registration field.
EntriesWithoutRegistrationField ==
    (\A i \in DOMAIN ovr.overrides :
        "registration" \notin DOMAIN ovr.overrides[i].data)
        => C18_OverrideEntries

\* An underscore entry for an existing registration, a merge and a new record.
OverridesMergeAndAdd ==
    /\ ovr.applied = 1
    /\ ovr.base = <<ParsedRecord("A", "Foo", Val("1000"))>>
    /\ ovr.overrides = <<Entry("_A", [mtom |-> Val("2000")]),
                         Entry("B", [mtom |-> Val("2000")])>>
    /\ ovr.list = <<ParsedRecord("A", "Foo", Val("1000")),
                    [registration |-> Val("B"), mtom |-> Val("2000")]>>

----------------------------------------------------------------------------
(* sync_aircraft.py: fetch_aircraft_data and its choice of decoder.        *)

\* content.startswith(prefix)
StartsWith(content, prefix) ==
    /\ Len(content) >= Len(prefix)
    /\ SubSeq(content, 1, Len(prefix)) = prefix

\* The byte strings the code tests for.
Bom16LE == <<255, 254>>
Bom16BE == <<254, 255>>
Bom32LE == <<255, 254, 0, 0>>
Bom32BE == <<0, 0, 254, 255>>

\* The if / elif / else over response.content, in the order of the code.
chosen_encoding(content) ==
    IF StartsWith(content, Bom16LE) \/ StartsWith(content, Bom16BE) THEN "utf-16"
    ELSE IF StartsWith(content, Bom32LE) \/ StartsWith(content, Bom32BE) THEN "utf-32"
    ELSE "utf-8"

\* fetch_aircraft_data: the request fails (RequestException), or the content
\* is decoded with the chosen codec, which succeeds or raises
\* UnicodeDecodeError; both errors are re-raised as Exception.
fetch_aircraft_data(content, reachable, decodable) ==
    IF ~reachable
    THEN [ran |-> TRUE, head |-> <<>>, encoding |-> "none", outcome |-> "request_error"]
    ELSE [ran |-> TRUE, head |-> content, encoding |-> chosen_encoding(content),
          outcome |-> IF decodable THEN "text" ELSE "decode_error"]

\* Bytes 00, 'A', FE, FF.
Bytes == {0, 65, 254, 255}

Payloads == UNION {[1..k -> Bytes] : k \in 0..MaxHead}

FetchRun(content, reachable, decodable) ==
    /\ fetch' = fetch_aircraft_data(content, reachable, decodable)
    /\ UNCHANGED <<releaseVars, bump, review, ovr, imp>>

InitFetch == ReleaseIdle /\ ToolsIdle

NextFetch ==
    \E content \in Payloads, reachable, decodable \in BOOLEAN :
        FetchRun(content, reachable, decodable)

SpecFetch == InitFetch /\ [][NextFetch]_vars

HasUtf32Bom(content) ==
    \/ StartsWith(content, <<255, 254, 0, 0>>)
    \/ StartsWith(content, <<0, 0, 254, 255>>)

HasUtf16Bom(content) ==
    /\ StartsWith(content, <<255, 254>>) \/ StartsWith(content, <<254, 255>>)
    /\ ~HasUtf32Bom(content)

\* C19: a payload starting with a UTF-32 byte-order mark (FF FE 00 00 or
\* 00 00 FE FF) is decoded as UTF-32, one starting with a UTF-16 mark (FF FE
\* or FE FF, not followed by the UTF-32 pattern) as UTF-16, and every other
\* payload as UTF-8.
C19_EncodingFollowsBom ==
    (fetch.ran /\ fetch.outcome # "request_error") =>
        /\ HasUtf32Bom(fetch.head) => fetch.encoding = "utf-32"
        /\ HasUtf16Bom(fetch.head) => fetch.encoding = "utf-16"
        /\ (~HasUtf32Bom(fetch.head) /\ ~HasUtf16Bom(fetch.head))
              => fetch.encoding = "utf-8"

\* The same, for every payload that does not start with FF FE 00 00.
EncodingFollowsBomExceptUtf32LE ==
    ~StartsWith(fetch.head, <<255, 254, 0, 0>>) => C19_EncodingFollowsBom

\* The big-endian UTF-32 mark reaches the utf-32 branch.
Utf32BEChosen ==
    fetch.ran /\ fetch.head = <<0, 0, 254, 255>> /\ fetch.encoding = "utf-32"

----------------------------------------------------------------------------
(* sync_aircraft.py: one import run, and imports followed by releases.     *)

\* One row of the CSV as csv.DictReader yields it.  A short row has None in
\* the columns it lacks.
CsvRow(reg, icao, mtom) ==
    [registration |-> reg, icao_aircraft_type |-> icao, aircraft_type |-> "Foo",
     mtom |-> mtom, short |-> FALSE]

ShortRow ==
    [registration |-> "B", icao_aircraft_type |-> "", aircraft_type |-> "",
     mtom |-> "", short |-> TRUE]

\* str.strip() on the cell texts drawn below.
Strip(s) ==
    CASE s = " A" -> "A"
      [] s = " " -> ""
      [] OTHER -> s

\* int(mtom_str) succeeds on the cell texts drawn below.
IsIntLiteral(s) == s \in {"1000", "2000"}

\* The body of the loop of parse_csv_data for one row: the record appended,
\* or no record (the row is skipped: an essential field is empty, or
\* None.strip() raised and the except clause continued).
RowSkipped(row) ==
    \/ row.short
    \/ Strip(row.registration) = ""
    \/ Strip(row.icao_aircraft_type) = ""
    \/ Strip(row.aircraft_type) = ""

RowRecord(row) ==
    [registration |-> Val(Strip(row.registration)),
     icao_aircraft_type |-> Val(Strip(row.icao_aircraft_type)),
     aircraft_type |-> Val(Strip(row.aircraft_type)),
     mtom |-> IF IsIntLiteral(Strip(row.mtom)) THEN Val(Strip(row.mtom)) ELSE Null]

RECURSIVE parse_csv_data(_)
parse_csv_data(rows) ==
    IF rows = <<>> THEN <<>>
    ELSE IF RowSkipped(Head(rows)) THEN parse_csv_data(Tail(rows))
         ELSE <<RowRecord(Head(rows))>> \o parse_csv_data(Tail(rows))

\* The order of str on the registrations of the model.
RegRank(r) ==
    CASE r = "A" -> 1
      [] r = "B" -> 2
      [] OTHER -> 3

\* list.sort(key=registration): a stable insertion of rec into a sorted list.
RECURSIVE InsertSorted(_, _)
InsertSorted(sorted, rec) ==
    IF sorted = <<>> THEN <<rec>>
    ELSE LET last == sorted[Len(sorted)]
         IN  IF RegRank(last["registration"].v) <= RegRank(rec["registration"].v)
             THEN Append(sorted, rec)
             ELSE Append(InsertSorted(SubSeq(sorted, 1, Len(sorted) - 1), rec), last)

RECURSIVE SortByRegistration(_)
SortByRegistration(list) ==
    IF list = <<>> THEN <<>>
    ELSE InsertSorted(SortByRegistration(SubSeq(list, 1, Len(list) - 1)),
                      list[Len(list)])

\* Variant of create_registry that counts the distinct registrations.
create_registry_CountingRegistrations(aircraft_list) ==
    [total_count |-> Cardinality({aircraft_list[i]["registration"].v :
                                     i \in DOMAIN aircraft_list}),
     aircraft |-> SortByRegistration(aircraft_list)]

\* create_registry: the sorted list and its length (version and
\* last_updated are those of every snapshot of the model).
create_registry(aircraft_list) ==
    [total_count |-> Len(aircraft_list),
     aircraft |-> SortByRegistration(aircraft_list)]

\* save_registry: the staging file after json.dump.  Of a record the file
\* model keeps the registration, the one field release.py reads.
save_registry(registry) ==
    JsonFile(Snapshot(RequiredFields, IntCount(registry.total_count),
                      ListOf([i \in DOMAIN registry.aircraft |->
                                 ObjItem(registry.aircraft[i]["registration"].v)]),
                      0),
             "indent2")

\* The end of a run of sync_aircraft.py: main's exit(0 if success else 1),
\* or the exit(1) inside sync.
ImportEnd(ok, reason, usable) ==
    [ran |-> TRUE, ok |-> ok, exit |-> IF ok THEN 0 ELSE 1, reason |-> reason,
     usable |-> usable]

\* Variant of Sync that opens the staging file for writing before fetching.
Sync_TruncatingFirst(content, reachable, decodable, rows, overrides) ==
    LET f == fetch_aircraft_data(content, reachable, decodable)
        parsed == parse_csv_data(rows)
        registry == create_registry(apply_overrides(parsed, overrides))
    IN  /\ pc = "idle"
        /\ fetch' = f
        /\ ovr' = [NoOverrides EXCEPT !.overrides = overrides]
        /\ IF f.outcome # "text"
           THEN imp' = ImportEnd(FALSE, f.outcome, 0) /\ staging' = NotJson
           ELSE IF Len(parsed) = 0
           THEN imp' = ImportEnd(FALSE, "empty", 0) /\ staging' = NotJson
           ELSE /\ imp' = ImportEnd(TRUE, "none", Len(parsed))
                /\ staging' = save_registry(registry)
        /\ UNCHANGED <<production, backupsDir, backups, versionFile, schema,
                       clock, pc, force, choice, bk, vres, pre, result,
                       bump, review>>

\* sync and main: fetch, parse, stop on zero rows, apply the overrides,
\* assemble, validate (a failed validation only warns), save.
Sync(content, reachable, decodable, rows, overrides) ==
    LET f == fetch_aircraft_data(content, reachable, decodable)
        parsed == parse_csv_data(rows)
        registry == create_registry(apply_overrides(parsed, overrides))
    IN  /\ pc = "idle"
        /\ fetch' = f
        /\ ovr' = [NoOverrides EXCEPT !.overrides = overrides]
        /\ IF f.outcome # "text"
           THEN imp' = ImportEnd(FALSE, f.outcome, 0) /\ UNCHANGED staging
           ELSE IF Len(parsed) = 0
           THEN imp' = ImportEnd(FALSE, "empty", 0) /\ UNCHANGED staging
           ELSE /\ imp' = ImportEnd(TRUE, "none", Len(parsed))
                /\ staging' = save_registry(registry)
        /\ UNCHANGED <<production, backupsDir, backups, versionFile, schema,
                       clock, pc, force, choice, bk, vres, pre, result,
                       bump, review>>

\* Fetched CSVs: no row; rows that are all skipped; one row; two rows in and
\* out of order; a registration repeated; a usable row with a skipped one.
CsvInputs ==
    {<<>>,
     <<CsvRow("", "L2J", "1000")>>,
     <<ShortRow, CsvRow("B", " ", "1000")>>,
     <<CsvRow("A", "L2J", "1000")>>,
     <<CsvRow("A", "L2J", "1000"), CsvRow("B", "L2J", "abc")>>,
     <<CsvRow("B", "L2J", "1000"), CsvRow(" A", "L2J", "2000")>>,
     <<CsvRow("A", "L2J", "1000"), CsvRow(" A", "L2J", "2000")>>,
     <<CsvRow("A", "L2J", "1000"), ShortRow>>}

\* Overrides of the syncer: none, a comment with a merge into A, a new
\* record B.
SyncOverrides ==
    {<<>>,
     <<Entry("_comment", <<>>), Entry("A", [mtom |-> Val("2000")])>>,
     <<Entry("B", [aircraft_type |-> Val("Baz"), notes |-> Val("n")])>>}

\* Staging files found by the first import: none, one that is not JSON, a
\* hand-edited one whose count is wrong.
EarlierStaging ==
    {NoFile, NotJson,
     JsonFile(Snapshot(RequiredFields, IntCount(MaxLen + 1),
                       ListOf(<<ObjItem("A")>>), 0), "raw")}

InitImport ==
    /\ staging \in EarlierStaging
    /\ production \in {NoFile, OldProduction}
    /\ backupsDir = FALSE
    /\ backups = <<>>
    /\ versionFile = NoVersionFile
    /\ schema = "absent"
    /\ clock = 1
    /\ pc = "idle"
    /\ force = FALSE
    /\ choice = "none"
    /\ bk = NoBackup
    /\ vres = NoValidation
    /\ pre = PreState
    /\ result = Outcome("none", "none", "none")
    /\ ToolsIdle

\* Import runs and forced releases in any order.
NextImport ==
    \/ \E rows \in CsvInputs, overrides \in SyncOverrides :
          Sync(<<65>>, TRUE, TRUE, rows, overrides)
    \/ \E content \in {<<65>>, <<255, 254, 65, 0>>}, reachable \in BOOLEAN :
          Sync(content, reachable, FALSE, <<>>, <<>>)
    \/ StartRelease(TRUE) /\ UNCHANGED toolVars
    \/ ValidateStaging /\ UNCHANGED toolVars
    \/ Backup("none") /\ UNCHANGED toolVars
    \/ \E ok \in BOOLEAN : Promote(ok) /\ UNCHANGED toolVars
    \/ Stamp /\ UNCHANGED toolVars

SpecImport == InitImport /\ [][NextImport]_vars

\* total_count is an integer equal to the number of aircraft records.
CountMatches(file) ==
    /\ file.exists
    /\ file.fmt # "notjson"
    /\ {"total_count", "aircraft"} \subseteq DOMAIN file.data
    /\ file.data.aircraft.isList
    /\ file.data.total_count.val = Len(file.data.aircraft.items)

\* C13: after any sequence of successful import runs and successful
\* releases, total_count equals the number of aircraft records in the
\* staging file the import wrote and in the production file the release
\* wrote.
C13_CountEqualsLength ==
    /\ (imp.ran /\ imp.ok) => CountMatches(staging)
    /\ Released => CountMatches(production)

\* An import of two rows with an override-only record was released.
C13_Witness ==
    /\ imp.ran /\ imp.ok /\ imp.usable = 1
    /\ Released
    /\ production.data.total_count.val = 2
    /\ Len(production.data.aircraft.items) = 2
    /\ production.data.aircraft.items = staging.data.aircraft.items

\* C15: an import run that fails (fetch failure, undecodable payload, or
\* zero usable rows, whatever the overrides hold) writes nothing to the
\* staging file, leaves its previous content unchanged and ends with a
\* failure exit status; the staging file is written only after parsing,
\* override application and assembly completed.
C15_FailedImportWritesNothing ==
    [][imp'.ran =>
          /\ (fetch'.outcome # "text" \/ imp'.usable = 0) => ~imp'.ok
          /\ ~imp'.ok => (staging' = staging /\ imp'.exit = 1)
          /\ staging' # staging =>
                (imp'.ok /\ imp'.reason = "none" /\ imp'.exit = 0)]_vars

\* Zero usable rows while an override would add a record: the run failed and
\* the earlier staging file is still there.
C15_Witness ==
    /\ imp.ran /\ ~imp.ok /\ imp.reason = "empty" /\ imp.exit = 1
    /\ ovr.overrides = <<Entry("B", [aircraft_type |-> Val("Baz"), notes |-> Val("n")])>>
    /\ staging.exists /\ staging.fmt = "indent2"

C15_WitnessFetch ==
    /\ imp.ran /\ ~imp.ok /\ imp.reason = "request_error" /\ imp.exit = 1
    /\ staging.exists /\ staging.fmt = "indent2"

C15_WitnessDecode ==
    /\ imp.ran /\ ~imp.ok /\ imp.reason = "decode_error" /\ imp.exit = 1
    /\ fetch.encoding = "utf-16"

\* C16: every snapshot the importer writes to staging has unique
\* registrations, whatever the parsed rows and the overrides document.
C16_ImportedRegistrationsUnique ==
    (imp.ran /\ imp.ok) =>
        \A i, j \in DOMAIN staging.data.aircraft.items :
            staging.data.aircraft.items[i].reg = staging.data.aircraft.items[j].reg
                => i = j

====
